---- MODULE Spec2Model ----
(***************************************************************************)
(* Five-card-draw poker session of backend/poker: the rows of models.py    *)
(* (Game, Player, Card, Opponent) of one game and the operations of        *)
(* services.GameService that create and mutate them.                       *)
(*                                                                         *)
(* One step of the model is one whole call of a GameService method, run    *)
(* to completion (sequential execution, specifications Spec and SpecStore);*)
(* SpecConc and SpecCreate run the calls query by query, interleaved, each *)
(* save() and create() being one write to the database.  The calls of the  *)
(* random module                                                           *)
(* are nondeterministic choices: random.choice picks any element,          *)
(* random.randint any sampled value of its range, random.shuffle any       *)
(* permutation out of a bounded family (the rotations 0..MaxShuffle).      *)
(***************************************************************************)
EXTENDS Integers, Sequences, FiniteSets, TLC

VARIABLES
    game,       \* the Game row
    player,     \* the Player row of the game (one-to-one)
    cards,      \* the player's Card rows, in order_by('position') order
    opponents,  \* the game's Opponent rows, in creation order
    last,       \* the last GameService call made and how it ended
    requests,   \* the calls in flight in the concurrent executions: their
                \* position in the code and their local objects
    db          \* the four tables when they hold several games (SpecMulti)

vars == <<game, player, cards, opponents, last, requests, db>>

session == <<game, player, cards, opponents>>

-----------------------------------------------------------------------------
(* Bounds of the model *)

\* random.shuffle outcomes explored: the rotations by 0..MaxShuffle
MaxShuffle == 1

\* discard_indices lists explored: every list up to this length over
\* IndexSamples, and the lists of TestDiscards
MaxDiscardLen == 1

-----------------------------------------------------------------------------
(* Values *)

\* Python None, SQL NULL of a nullable CharField
None == "None"

\* no exception raised
NoError == "ok"

ErrBetPhase == "Cannot bet when not in betting phase"
ErrCallChips == "Insufficient chips to call"
ErrAmountRequired == "Amount required for raise"
ErrRaisePositive == "Raise amount must be positive"
ErrRaiseChips == "Insufficient chips to raise"
ErrDrawPhase == "Cannot draw when not in drawing phase"
ErrNotFound == "Game not found"

ErrInvalidIndex == "Invalid card index"

PHASE_CHOICES == {"betting", "drawing", "showdown", "finished"}

STATUS_CHOICES == {"active", "folded", "all_in"}

SUITS == <<"hearts", "diamonds", "clubs", "spades">>

RANKS == <<"2", "3", "4", "5", "6", "7", "8", "9", "10", "J", "Q", "K", "A">>

OPPONENT_NAMES == <<"Computer 1", "Computer 2", "Computer 3">>

WINNING_HANDS ==
    {"Royal Flush", "Straight Flush", "Four of a Kind", "Full House", "Flush",
     "Straight", "Three of a Kind", "Two Pair", "Pair of Aces", "Pair of Kings",
     "High Card"}

STARTING_CHIPS == 1000

INITIAL_BET == 10

HAND_SIZE == 5

OPPONENT_CHIPS_MIN == 800

OPPONENT_CHIPS_MAX == 1200

\* the outcomes of the three random.randint(800, 1200) calls explored: both
\* ends of the range, and three different values
OpponentChipsDraws ==
    {<<OPPONENT_CHIPS_MIN, OPPONENT_CHIPS_MIN, OPPONENT_CHIPS_MIN>>,
     <<OPPONENT_CHIPS_MAX, OPPONENT_CHIPS_MIN + 200, OPPONENT_CHIPS_MIN>>,
     <<OPPONENT_CHIPS_MAX, OPPONENT_CHIPS_MAX, OPPONENT_CHIPS_MAX>>}

-----------------------------------------------------------------------------
(* Inputs *)

BetActions == {"call", "raise", "fold"}

\* the optional amount argument: <<>> is None, <<n>> is the integer n
AmountInputs == {<<>>, <<-10>>, <<0>>, <<300>>, <<400>>, <<1000>>, <<2000>>}

IndexSamples == {-1, 0, 5}

TestDiscards ==
    {<<0, 2, 4>>, <<4, 0>>, <<0, 1, 2, 3, 4>>, <<0, 5, 10>>, <<-1, 0, 1>>,
     <<0, 1, 1, 2>>}

DiscardInputs ==
    UNION {[1..n -> IndexSamples] : n \in 0..MaxDiscardLen} \cup TestDiscards

Shuffles == 0..MaxShuffle

-----------------------------------------------------------------------------
(* Deck *)

\* [(suit, rank) for suit in cls.SUITS for rank in cls.RANKS]
FullDeck ==
    [i \in 1..(Len(SUITS) * Len(RANKS)) |->
        <<SUITS[((i - 1) \div Len(RANKS)) + 1], RANKS[((i - 1) % Len(RANKS)) + 1]>>]

\* random.shuffle(deck): the k-th explored permutation, the rotation by k
Shuffle(deck, k) ==
    [i \in 1..Len(deck) |-> deck[((i - 1 + k) % Len(deck)) + 1]]

\* the (suit, rank) pairs of a list of Card rows
CurrentCards(cs) == {<<cs[i].suit, cs[i].rank>> : i \in 1..Len(cs)}

\* mutant: the deck is not filtered by the current cards
RemainingDeck_NotFiltered(cs) == FullDeck

\* the deck of process_draw_action: the full deck without the current cards
RemainingDeck(cs) ==
    LET current_cards == CurrentCards(cs)
        NotHeld(c) == c \notin current_cards
    IN  SelectSeq(FullDeck, NotHeld)

-----------------------------------------------------------------------------
(* create_new_game *)

\* the value uuid.uuid4 gives the game, and an identifier no game has
GAME_ID == "0b0e7d6c-3f5a-4c1e-9d2a-7e1f4a8b6c01"

OTHER_ID == "5a1c9e2f-8b7d-4e6a-b3c4-2d9f0e1a7b02"

\* the game_id arguments explored
GameIdInputs == {GAME_ID, OTHER_ID}

\* the number of calls in flight at once in the concurrent executions
ConcurrentRequests == 2

Requests == 1..ConcurrentRequests

\* no call in flight
Idle == [pc |-> "idle"]

\* the four tables with no row
EmptyDb == [games |-> {}, players |-> <<>>, cards |-> <<>>, opponents |-> <<>>]

NewGame ==
    [id |-> GAME_ID, phase |-> "betting", pot |-> 0, current_bet |-> INITIAL_BET,
     winner |-> None, winning_hand |-> None,
     can_call |-> TRUE, can_raise |-> TRUE, can_fold |-> TRUE]

NewPlayer ==
    [chips |-> STARTING_CHIPS, has_folded |-> FALSE, current_bet |-> 0]

\* chips[i] is the outcome of the i-th random.randint(800, 1200)
NewOpponents(chips) ==
    [i \in 1..Len(OPPONENT_NAMES) |->
        [name |-> OPPONENT_NAMES[i], chips |-> chips[i], status |-> "active",
         card_count |-> 5, current_bet |-> 0]]

\* mutant: the cards are picked with replacement (the fifth repeats the first)
DealInitialCards_Repeating(k) ==
    LET deck == Shuffle(FullDeck, k)
    IN  [i \in 1..HAND_SIZE |->
            [suit |-> deck[((i - 1) % 4) + 1][1], rank |-> deck[((i - 1) % 4) + 1][2],
             selected |-> FALSE, position |-> i - 1]]

\* _deal_initial_cards with the k-th shuffle
DealInitialCards(k) ==
    LET deck == Shuffle(FullDeck, k)
    IN  [i \in 1..HAND_SIZE |->
            [suit |-> deck[i][1], rank |-> deck[i][2], selected |-> FALSE,
             position |-> i - 1]]

Init ==
    \E k \in Shuffles, chips \in OpponentChipsDraws :
        /\ game = NewGame
        /\ player = NewPlayer
        /\ opponents = NewOpponents(chips)
        /\ cards = DealInitialCards(k)
        /\ last = [op |-> "create_new_game", action |-> None, error |-> NoError]
        /\ requests = [r \in Requests |-> Idle]
        /\ db = EmptyDb

-----------------------------------------------------------------------------
(* process_bet_action *)

\* mutant: "amount is None" in place of "not amount"
Falsy_IsNone(amount) == amount = <<>>

\* Python's "not amount": None or 0
Falsy(amount) == amount = <<>> \/ amount[1] = 0

\* mutant: process_bet_action without its phase check
BetError_NoPhaseCheck(g, p, action, amount) ==
    IF action = "fold" THEN NoError
    ELSE IF action = "call"
         THEN IF p.chips < g.current_bet THEN ErrCallChips ELSE NoError
    ELSE IF action = "raise"
         THEN IF amount = <<>> \/ amount[1] = 0 THEN ErrAmountRequired
              ELSE IF amount[1] < 0 THEN ErrRaisePositive
              ELSE IF p.chips < amount[1] THEN ErrRaiseChips
              ELSE NoError
    ELSE NoError

\* mutant: the raise's funds check is "<=" in place of "<"
BetError_RaiseOffByOne(g, p, action, amount) ==
    IF g.phase # "betting" THEN ErrBetPhase
    ELSE IF action = "fold" THEN NoError
    ELSE IF action = "call"
         THEN IF p.chips < g.current_bet THEN ErrCallChips ELSE NoError
    ELSE IF action = "raise"
         THEN IF amount = <<>> \/ amount[1] = 0 THEN ErrAmountRequired
              ELSE IF amount[1] < 0 THEN ErrRaisePositive
              ELSE IF p.chips <= amount[1] THEN ErrRaiseChips
              ELSE NoError
    ELSE NoError

\* mutant: the call's funds check is missing
BetError_NoCallFundsCheck(g, p, action, amount) ==
    IF g.phase # "betting" THEN ErrBetPhase
    ELSE IF action = "fold" THEN NoError
    ELSE IF action = "call" THEN NoError
    ELSE IF action = "raise"
         THEN IF amount = <<>> \/ amount[1] = 0 THEN ErrAmountRequired
              ELSE IF amount[1] < 0 THEN ErrRaisePositive
              ELSE IF p.chips < amount[1] THEN ErrRaiseChips
              ELSE NoError
    ELSE NoError

\* mutant: the call's funds check compares with the opening bet
BetError_CallChecksOpeningBet(g, p, action, amount) ==
    IF g.phase # "betting" THEN ErrBetPhase
    ELSE IF action = "fold" THEN NoError
    ELSE IF action = "call"
         THEN IF p.chips < INITIAL_BET THEN ErrCallChips ELSE NoError
    ELSE IF action = "raise"
         THEN IF amount = <<>> \/ amount[1] = 0 THEN ErrAmountRequired
              ELSE IF amount[1] < 0 THEN ErrRaisePositive
              ELSE IF p.chips < amount[1] THEN ErrRaiseChips
              ELSE NoError
    ELSE NoError

\* mutant: a call is refused when the game's can_call flag is off
BetError_GatedByFlags(g, p, action, amount) ==
    IF g.phase # "betting" THEN ErrBetPhase
    ELSE IF action = "fold" THEN NoError
    ELSE IF action = "call"
         THEN IF ~g.can_call \/ p.chips < g.current_bet THEN ErrCallChips ELSE NoError
    ELSE IF action = "raise"
         THEN IF amount = <<>> \/ amount[1] = 0 THEN ErrAmountRequired
              ELSE IF amount[1] < 0 THEN ErrRaisePositive
              ELSE IF p.chips < amount[1] THEN ErrRaiseChips
              ELSE NoError
    ELSE NoError

\* the exception process_bet_action raises, NoError when it returns
BetError(g, p, action, amount) ==
    IF g.phase # "betting" THEN ErrBetPhase
    ELSE IF action = "fold" THEN NoError
    ELSE IF action = "call"
         THEN IF p.chips < g.current_bet THEN ErrCallChips ELSE NoError
    ELSE IF action = "raise"
         THEN IF Falsy(amount) THEN ErrAmountRequired
              ELSE IF amount[1] < 0 THEN ErrRaisePositive
              ELSE IF p.chips < amount[1] THEN ErrRaiseChips
              ELSE NoError
    ELSE NoError

\* mutant: a call pays the opening bet, not the table's current bet
BetPlayer_CallPaysOpeningBet(g, p, action, amount) ==
    IF action = "fold" THEN [p EXCEPT !.has_folded = TRUE]
    ELSE IF action = "call"
         THEN [p EXCEPT !.chips = @ - INITIAL_BET, !.current_bet = g.current_bet]
    ELSE IF action = "raise"
         THEN [p EXCEPT !.chips = @ - amount[1], !.current_bet = amount[1]]
    ELSE p

\* mutant: a raise leaves the player's chips as they were
BetPlayer_RaiseKeepsChips(g, p, action, amount) ==
    IF action = "fold" THEN [p EXCEPT !.has_folded = TRUE]
    ELSE IF action = "call"
         THEN [p EXCEPT !.chips = @ - g.current_bet, !.current_bet = g.current_bet]
    ELSE IF action = "raise"
         THEN [p EXCEPT !.current_bet = amount[1]]
    ELSE p

\* the Player row process_bet_action saves
BetPlayer(g, p, action, amount) ==
    IF action = "fold" THEN [p EXCEPT !.has_folded = TRUE]
    ELSE IF action = "call"
         THEN [p EXCEPT !.chips = @ - g.current_bet, !.current_bet = g.current_bet]
    ELSE IF action = "raise"
         THEN [p EXCEPT !.chips = @ - amount[1], !.current_bet = amount[1]]
    ELSE p

Max(a, b) == IF a >= b THEN a ELSE b

\* mutant: a raise sets the table's bet to its amount, without the max
BetGame_RaiseOverwritesBet(g, action, amount, w) ==
    IF action = "fold"
    THEN [g EXCEPT !.phase = "finished", !.winner = w,
                   !.winning_hand = "Pair of Kings"]
    ELSE IF action = "call"
         THEN [g EXCEPT !.pot = @ + g.current_bet, !.phase = "drawing"]
    ELSE IF action = "raise"
         THEN [g EXCEPT !.pot = @ + amount[1], !.current_bet = amount[1]]
    ELSE g

\* mutant: a call credits the pot with the opening bet
BetGame_CallCreditsOpeningBet(g, action, amount, w) ==
    IF action = "fold"
    THEN [g EXCEPT !.phase = "finished", !.winner = w,
                   !.winning_hand = "Pair of Kings"]
    ELSE IF action = "call"
         THEN [g EXCEPT !.pot = @ + INITIAL_BET, !.phase = "drawing"]
    ELSE IF action = "raise"
         THEN [g EXCEPT !.pot = @ + amount[1],
                        !.current_bet = Max(g.current_bet, amount[1])]
    ELSE g

\* the Game row process_bet_action saves; w is the outcome of random.choice
BetGame(g, action, amount, w) ==
    IF action = "fold"
    THEN [g EXCEPT !.phase = "finished", !.winner = w,
                   !.winning_hand = "Pair of Kings"]
    ELSE IF action = "call"
         THEN [g EXCEPT !.pot = @ + g.current_bet, !.phase = "drawing"]
    ELSE IF action = "raise"
         THEN [g EXCEPT !.pot = @ + amount[1],
                        !.current_bet = Max(g.current_bet, amount[1])]
    ELSE g

\* mutant: the fold's winner is drawn from all participants
FoldWinners_WithPlayer == {"player", "Computer 1", "Computer 2", "Computer 3"}

\* random.choice(['Computer 1', 'Computer 2', 'Computer 3'])
FoldWinners == {"Computer 1", "Computer 2", "Computer 3"}

ProcessBetAction(action, amount) ==
    LET err == BetError(game, player, action, amount)
    IN  /\ last' = [op |-> "process_bet_action", action |-> action, error |-> err]
        /\ IF err # NoError
           THEN UNCHANGED <<game, player, cards, opponents>>
           ELSE /\ \E w \in FoldWinners : game' = BetGame(game, action, amount, w)
                /\ player' = BetPlayer(game, player, action, amount)
                /\ UNCHANGED <<cards, opponents>>
        /\ UNCHANGED <<requests, db>>

-----------------------------------------------------------------------------
(* process_draw_action *)

\* sorted(discard_indices)
Sorted(indices) == SortSeq(indices, LAMBDA a, b : a < b)

\* mutant: process_draw_action refuses only a finished game
DrawError_OnlyFinished(g, cs, discard_indices) ==
    IF g.phase = "finished" THEN ErrDrawPhase
    ELSE IF \E i \in 1..Len(discard_indices) :
                discard_indices[i] < 0 \/ discard_indices[i] >= Len(cs)
         THEN ErrInvalidIndex
    ELSE NoError

\* mutant: an empty discard list is refused
DrawError_RejectsEmpty(g, cs, discard_indices) ==
    IF g.phase # "drawing" THEN ErrDrawPhase
    ELSE IF discard_indices = <<>> THEN ErrInvalidIndex
    ELSE IF \E i \in 1..Len(discard_indices) :
                discard_indices[i] < 0 \/ discard_indices[i] >= Len(cs)
         THEN ErrInvalidIndex
    ELSE NoError

\* mutant: the index check is "> len(cards)" in place of ">= len(cards)"
DrawError_IndexOffByOne(g, cs, discard_indices) ==
    IF g.phase # "drawing" THEN ErrDrawPhase
    ELSE IF \E i \in 1..Len(discard_indices) :
                discard_indices[i] < 0 \/ discard_indices[i] > Len(cs)
         THEN ErrInvalidIndex
    ELSE NoError

\* the exception process_draw_action raises, NoError when it returns
DrawError(g, cs, discard_indices) ==
    IF g.phase # "drawing" THEN ErrDrawPhase
    ELSE IF \E i \in 1..Len(discard_indices) :
                discard_indices[i] < 0 \/ discard_indices[i] >= Len(cs)
         THEN ErrInvalidIndex
    ELSE NoError

\* mutant: every replacement takes deck[0] in place of deck[i]
RECURSIVE ReplaceCards_SameCard(_, _, _, _)
ReplaceCards_SameCard(cs, sorted, deck, i) ==
    IF i >= Len(sorted) THEN cs
    ELSE ReplaceCards_SameCard(
            [cs EXCEPT ![sorted[i + 1] + 1] =
                [@ EXCEPT !.suit = deck[1][1], !.rank = deck[1][2]]],
            sorted, deck, i + 1)

\* for i, index in enumerate(sorted(discard_indices)): from i on
RECURSIVE ReplaceCards(_, _, _, _)
ReplaceCards(cs, sorted, deck, i) ==
    IF i >= Len(sorted) THEN cs
    ELSE ReplaceCards(
            [cs EXCEPT ![sorted[i + 1] + 1] =
                [@ EXCEPT !.suit = deck[i + 1][1], !.rank = deck[i + 1][2]]],
            sorted, deck, i + 1)

\* mutant: the discarded cards go back into the deck before the shuffle
DrawCards_DiscardsReturn(cs, discard_indices, k) ==
    LET kept == {<<cs[i].suit, cs[i].rank>> :
                    i \in {j \in 1..Len(cs) :
                              \A n \in 1..Len(discard_indices) :
                                  discard_indices[n] # j - 1}}
        NotKept(c) == c \notin kept
    IN  IF discard_indices = <<>> THEN cs
        ELSE ReplaceCards(cs, Sorted(discard_indices),
                          Shuffle(SelectSeq(FullDeck, NotKept), k), 0)

\* the Card rows after the replacement, with the k-th shuffle of the deck
DrawCards(cs, discard_indices, k) ==
    IF discard_indices = <<>> THEN cs
    ELSE ReplaceCards(cs, Sorted(discard_indices), Shuffle(RemainingDeck(cs), k), 0)

ActiveOpponentNames(opps) ==
    {opps[i].name : i \in {j \in 1..Len(opps) : opps[j].status = "active"}}

\* the values _determine_winner can leave in game.winner
WinnerChoices(g, p, opps) ==
    IF ~p.has_folded THEN {"player"} \cup ActiveOpponentNames(opps)
    ELSE IF ActiveOpponentNames(opps) # {} THEN ActiveOpponentNames(opps)
    ELSE {g.winner}

\* mutant: _determine_winner leaves winning_hand as it was
DetermineWinner_NoLabel(g, w, h) == [g EXCEPT !.winner = w]

\* mutant: _determine_winner empties the pot when it names the winner
DetermineWinner_PaysOut(g, w, h) ==
    [g EXCEPT !.winner = w, !.winning_hand = h, !.pot = 0]

\* _determine_winner; w and h are the outcomes of its two random.choice calls
DetermineWinner(g, w, h) == [g EXCEPT !.winner = w, !.winning_hand = h]

\* mutant: the draw moves to the declared showdown phase
DrawGame_ToShowdown(g, w, h) == DetermineWinner([g EXCEPT !.phase = "showdown"], w, h)

\* mutant: finishing the game switches the three flags off
DrawGame_ClearsFlags(g, w, h) ==
    DetermineWinner([g EXCEPT !.phase = "finished", !.can_call = FALSE,
                              !.can_raise = FALSE, !.can_fold = FALSE], w, h)

\* the Game row process_draw_action saves
DrawGame(g, w, h) == DetermineWinner([g EXCEPT !.phase = "finished"], w, h)

\* mutant: the draw marks the opponents that did not win as folded
ProcessDrawAction_LosersFold(discard_indices) ==
    LET err == DrawError(game, cards, discard_indices)
    IN  /\ last' = [op |-> "process_draw_action", action |-> None, error |-> err]
        /\ IF err # NoError
           THEN UNCHANGED <<game, player, cards, opponents>>
           ELSE /\ \E k \in Shuffles : cards' = DrawCards(cards, discard_indices, k)
                /\ \E w \in WinnerChoices(game, player, opponents), h \in WINNING_HANDS :
                      /\ game' = DrawGame(game, w, h)
                      /\ opponents' =
                            [i \in 1..Len(opponents) |->
                                IF opponents[i].name = w THEN opponents[i]
                                ELSE [opponents[i] EXCEPT !.status = "folded"]]
                /\ UNCHANGED player
        /\ UNCHANGED <<requests, db>>

ProcessDrawAction(discard_indices) ==
    LET err == DrawError(game, cards, discard_indices)
    IN  /\ last' = [op |-> "process_draw_action", action |-> None, error |-> err]
        /\ IF err # NoError
           THEN UNCHANGED <<game, player, cards, opponents>>
           ELSE /\ \E k \in Shuffles : cards' = DrawCards(cards, discard_indices, k)
                /\ \E w \in WinnerChoices(game, player, opponents), h \in WINNING_HANDS :
                      game' = DrawGame(game, w, h)
                /\ UNCHANGED <<player, opponents>>
        /\ UNCHANGED <<requests, db>>

-----------------------------------------------------------------------------

Next ==
    \/ \E action \in BetActions, amount \in AmountInputs :
          ProcessBetAction(action, amount)
    \/ \E discard_indices \in DiscardInputs : ProcessDrawAction(discard_indices)

Spec == Init /\ [][Next]_vars

\* a call of process_bet_action or process_draw_action that returns
SucceedingCall == Next /\ last'.error = NoError

\* the caller keeps issuing calls that succeed as long as there is one
SpecLive == Init /\ [][Next]_vars /\ WF_vars(SucceedingCall)

-----------------------------------------------------------------------------
(* get_game_state *)

\* the rows of the Game table
Games == IF game.id = None THEN {} ELSE {game}

\* mutant: the lookup saves the row it found with the phase reset
GetGameState_ResetsPhase(game_id) ==
    /\ last' = IF game.id # game_id
               THEN [op |-> "get_game_state", action |-> None, error |-> ErrNotFound]
               ELSE [op |-> "get_game_state", action |-> None,
                     error |-> NoError, returned |-> game]
    /\ game' = IF game.id # game_id THEN game ELSE [game EXCEPT !.phase = "betting"]
    /\ UNCHANGED <<player, cards, opponents, requests, db>>

\* Game.objects.get(id=game_id); DoesNotExist becomes ValueError
GetGameState(game_id) ==
    LET found == {g \in Games : g.id = game_id}
    IN  /\ last' = IF found = {}
                   THEN [op |-> "get_game_state", action |-> None,
                         error |-> ErrNotFound]
                   ELSE [op |-> "get_game_state", action |-> None,
                         error |-> NoError, returned |-> CHOOSE g \in found : TRUE]
        /\ UNCHANGED <<game, player, cards, opponents, requests, db>>

\* the sequential executions with lookups between the calls
NextStore ==
    \/ Next
    \/ \E game_id \in GameIdInputs : GetGameState(game_id)

SpecStore == Init /\ [][NextStore]_vars

-----------------------------------------------------------------------------
(* Concurrent requests on one game: each request runs views.bet or           *)
(* views.draw and the GameService method it calls, one database query per    *)
(* step.  No statement of services.py or views.py opens a transaction or     *)
(* locks a row, so every save() is one write that the other requests see.    *)

\* the bets and the discard lists the concurrent requests send
ConcBetInputs == {<<"call", <<>> >>, <<"raise", <<500>> >>, <<"fold", <<>> >>}

ConcDiscards == {<<>>, <<1, 0>>}

\* the game after create_new_game and a raise of 500: the player's chips
\* equal the bet to call
InitConc ==
    \E k \in Shuffles, chips \in OpponentChipsDraws :
        /\ game = BetGame(NewGame, "raise", <<500>>, None)
        /\ player = BetPlayer(NewGame, NewPlayer, "raise", <<500>>)
        /\ opponents = NewOpponents(chips)
        /\ cards = DealInitialCards(k)
        /\ last = [op |-> "process_bet_action", action |-> "raise", error |-> NoError]
        /\ requests = [r \in Requests |-> Idle]
        /\ db = EmptyDb

\* how a request ends
Done(req, err) == [pc |-> "done", op |-> req.op, action |-> req.action, error |-> err]

\* views.bet: game = GameService.get_game_state(pk)
BetReadGame(r, action, amount) ==
    /\ requests[r].pc = "idle"
    /\ requests' = [requests EXCEPT ![r] =
            [pc |-> "read_player", op |-> "process_bet_action", action |-> action,
             amount |-> amount, game |-> game]]
    /\ UNCHANGED <<game, player, cards, opponents, last, db>>

\* process_bet_action up to the first save: the phase check on the game
\* object read before, player = game.player, the checks on its chips and the
\* assignments to the player object
BetReadPlayer(r) ==
    LET req == requests[r]
        err == BetError(req.game, player, req.action, req.amount)
    IN  /\ req.pc = "read_player"
        /\ requests' = [requests EXCEPT ![r] =
                IF err # NoError THEN Done(req, err)
                ELSE [pc |-> "save_player", op |-> req.op, action |-> req.action,
                      amount |-> req.amount, game |-> req.game,
                      player |-> BetPlayer(req.game, player, req.action, req.amount)]]
        /\ UNCHANGED <<game, player, cards, opponents, last, db>>

\* player.save()
BetSavePlayer(r) ==
    LET req == requests[r]
    IN  /\ req.pc = "save_player"
        /\ player' = req.player
        /\ requests' = [requests EXCEPT ![r] =
                [pc |-> "save_game", op |-> req.op, action |-> req.action,
                 amount |-> req.amount, game |-> req.game]]
        /\ UNCHANGED <<game, cards, opponents, last, db>>

\* the assignments to the game object read at the start, and game.save()
BetSaveGame(r) ==
    LET req == requests[r]
    IN  /\ req.pc = "save_game"
        /\ req.op = "process_bet_action"
        /\ \E w \in FoldWinners : game' = BetGame(req.game, req.action, req.amount, w)
        /\ requests' = [requests EXCEPT ![r] = Done(req, NoError)]
        /\ UNCHANGED <<player, cards, opponents, last, db>>

\* views.draw: game = GameService.get_game_state(pk)
DrawReadGame(r, discard_indices) ==
    /\ requests[r].pc = "idle"
    /\ requests' = [requests EXCEPT ![r] =
            [pc |-> "read_cards", op |-> "process_draw_action", action |-> None,
             discard_indices |-> discard_indices, game |-> game]]
    /\ UNCHANGED <<game, player, cards, opponents, last, db>>

\* process_draw_action up to the first save: the phase check, game.player and
\* its cards read, the indices checked, the deck built and shuffled
DrawReadCards(r) ==
    LET req == requests[r]
        err == DrawError(req.game, cards, req.discard_indices)
        n == Len(req.discard_indices)
    IN  /\ req.pc = "read_cards"
        /\ \E k \in Shuffles :
              requests' = [requests EXCEPT ![r] =
                IF err # NoError THEN Done(req, err)
                ELSE [pc |-> IF n = 0 THEN "save_game" ELSE "save_card",
                      op |-> req.op, action |-> None, game |-> req.game,
                      player |-> player, cards |-> cards,
                      sorted |-> Sorted(req.discard_indices),
                      deck |-> IF n = 0 THEN <<>>
                               ELSE SubSeq(Shuffle(RemainingDeck(cards), k), 1, n),
                      i |-> 0]]
        /\ UNCHANGED <<game, player, cards, opponents, last, db>>

\* one turn of the replacement loop: the card object gets suit and rank of
\* deck[i], then card.save()
DrawSaveCard(r) ==
    LET req == requests[r]
        index == req.sorted[req.i + 1]
        card == [req.cards[index + 1] EXCEPT !.suit = req.deck[req.i + 1][1],
                                             !.rank = req.deck[req.i + 1][2]]
    IN  /\ req.pc = "save_card"
        /\ cards' = [cards EXCEPT ![index + 1] = card]
        /\ requests' = [requests EXCEPT ![r] =
                [req EXCEPT !.cards = [req.cards EXCEPT ![index + 1] = card],
                            !.i = req.i + 1,
                            !.pc = IF req.i + 1 = Len(req.sorted)
                                   THEN "save_game" ELSE "save_card"]]
        /\ UNCHANGED <<game, player, opponents, last, db>>

\* game.phase = 'finished', _determine_winner(game) and game.save()
DrawSaveGame(r) ==
    LET req == requests[r]
    IN  /\ req.pc = "save_game"
        /\ req.op = "process_draw_action"
        /\ \E w \in WinnerChoices(req.game, req.player, opponents), h \in WINNING_HANDS :
              game' = DrawGame(req.game, w, h)
        /\ requests' = [requests EXCEPT ![r] = Done(req, NoError)]
        /\ UNCHANGED <<player, cards, opponents, last, db>>

NextConc ==
    \/ \E r \in Requests, b \in ConcBetInputs : BetReadGame(r, b[1], b[2])
    \/ \E r \in Requests : BetReadPlayer(r)
    \/ \E r \in Requests : BetSavePlayer(r)
    \/ \E r \in Requests : BetSaveGame(r)
    \/ \E r \in Requests, discard_indices \in ConcDiscards :
          DrawReadGame(r, discard_indices)
    \/ \E r \in Requests : DrawReadCards(r)
    \/ \E r \in Requests : DrawSaveCard(r)
    \/ \E r \in Requests : DrawSaveGame(r)
    \/ \E game_id \in GameIdInputs : GetGameState(game_id)

SpecConc == InitConc /\ [][NextConc]_vars

-----------------------------------------------------------------------------
(* The HTTP requests: GameViewSet.bet and GameViewSet.draw with the request *)
(* serializers, served one after the other.  A request body is a record of  *)
(* optional fields: <<>> is a field left out, <<v>> a field sent as v.      *)

\* a pk that uuid.UUID refuses
MALFORMED_ID == "not-a-uuid"

PkInputs == GameIdInputs \cup {MALFORMED_ID}

\* uuid.UUID(pk) returns: of the pk values explored, the two uuid4 strings
IsUuid(pk) == pk \in GameIdInputs

\* the bet bodies explored
BetBodies ==
    {[action |-> <<>>, amount |-> <<>>],
     [action |-> <<"check">>, amount |-> <<>>],
     [action |-> <<"call">>, amount |-> <<>>],
     [action |-> <<"call">>, amount |-> <<0>>],
     [action |-> <<"fold">>, amount |-> <<>>],
     [action |-> <<"raise">>, amount |-> <<>>],
     [action |-> <<"raise">>, amount |-> <<0>>],
     [action |-> <<"raise">>, amount |-> <<400>>],
     [action |-> <<"raise">>, amount |-> <<2000>>]}

\* the draw bodies explored
DrawBodies ==
    [discardIndices : {<<>>, << <<>> >>, << <<4, 0>> >>, << <<0, 1, 1, 2>> >>,
                       << <<5>> >>, << <<-1>> >>, << <<0, 1, 2, 3, 4, 0>> >>}]

\* mutant: action is a free CharField
BetBodyValid_AnyAction(data) ==
    /\ data.action # <<>>
    /\ data.amount # <<>> => data.amount[1] >= 1
    /\ data.action[1] = "raise" => data.amount # <<>>

\* BetActionSerializer(data).is_valid()
BetBodyValid(data) ==
    /\ data.action # <<>>
    /\ data.action[1] \in {"call", "raise", "fold"}
    /\ data.amount # <<>> => data.amount[1] >= 1
    /\ data.action[1] = "raise" => data.amount # <<>>

\* DrawActionSerializer(data).is_valid()
DrawBodyValid(data) ==
    /\ data.discardIndices # <<>>
    /\ LET value == data.discardIndices[1]
       IN  /\ Len(value) <= 5
           /\ \A i \in 1..Len(value) : value[i] >= 0 /\ value[i] <= 4
           /\ Len(value) = Cardinality({value[i] : i \in 1..Len(value)})

\* a Response: its status code, its 'error' entry (NoError when it carries
\* the game state) and whether get_game_state was called on the way
Response(op, status, error, looked_up) ==
    [op |-> op, action |-> None, error |-> error, status |-> status,
     looked_up |-> looked_up]

\* mutant: the body is validated before the game is looked up
Refusal_ValidatesFirst(op, pk, valid, phase, message) ==
    IF ~IsUuid(pk) THEN Response(op, 400, "Invalid game ID format", FALSE)
    ELSE IF ~valid THEN Response(op, 400, "Invalid " \o op \o " action", FALSE)
    ELSE IF {g \in Games : g.id = pk} = {} THEN Response(op, 404, ErrNotFound, TRUE)
    ELSE IF game.phase # phase THEN Response(op, 400, message, TRUE)
    ELSE Response(op, 200, NoError, TRUE)

\* the responses of bet and draw before the service method is called, NoError
\* when it is called
Refusal(op, pk, valid, phase, message) ==
    IF ~IsUuid(pk) THEN Response(op, 400, "Invalid game ID format", FALSE)
    ELSE IF {g \in Games : g.id = pk} = {} THEN Response(op, 404, ErrNotFound, TRUE)
    ELSE IF ~valid THEN Response(op, 400, "Invalid " \o op \o " action", TRUE)
    ELSE IF game.phase # phase THEN Response(op, 400, message, TRUE)
    ELSE Response(op, 200, NoError, TRUE)

\* GameViewSet.bet
BetView(pk, data) ==
    LET refusal == Refusal("bet", pk, BetBodyValid(data), "betting",
                           "Cannot bet in current game phase")
    IN  /\ IF refusal.status # 200
           THEN /\ last' = refusal
                /\ UNCHANGED <<game, player>>
           ELSE LET action == data.action[1]
                    amount == data.amount
                    err == BetError(game, player, action, amount)
                IN  IF err # NoError
                    THEN /\ last' = Response("bet", 400, err, TRUE)
                         /\ UNCHANGED <<game, player>>
                    ELSE /\ last' = refusal
                         /\ \E w \in FoldWinners :
                               game' = BetGame(game, action, amount, w)
                         /\ player' = BetPlayer(game, player, action, amount)
        /\ UNCHANGED <<cards, opponents, requests, db>>

\* GameViewSet.draw
DrawView(pk, data) ==
    LET refusal == Refusal("draw", pk, DrawBodyValid(data), "drawing",
                           "Cannot draw in current game phase")
    IN  /\ IF refusal.status # 200
           THEN /\ last' = refusal
                /\ UNCHANGED <<game, cards>>
           ELSE LET discard_indices == data.discardIndices[1]
                    err == DrawError(game, cards, discard_indices)
                IN  IF err # NoError
                    THEN /\ last' = Response("draw", 400, err, TRUE)
                         /\ UNCHANGED <<game, cards>>
                    ELSE /\ last' = refusal
                         /\ \E k \in Shuffles :
                               cards' = DrawCards(cards, discard_indices, k)
                         /\ \E w \in WinnerChoices(game, player, opponents),
                               h \in WINNING_HANDS : game' = DrawGame(game, w, h)
        /\ UNCHANGED <<player, opponents, requests, db>>

NextHttp ==
    \/ \E pk \in PkInputs, data \in BetBodies : BetView(pk, data)
    \/ \E pk \in PkInputs, data \in DrawBodies : DrawView(pk, data)

SpecHttp == Init /\ [][NextHttp]_vars

-----------------------------------------------------------------------------
(* create_new_game row by row: every objects.create is one INSERT that a   *)
(* lookup running at the same time sees.                                   *)

\* a row that does not exist (Game.DoesNotExist, Player.DoesNotExist)
NoRow == [id |-> None]

\* the database before the game is created
InitCreate ==
    /\ game = NoRow
    /\ player = NoRow
    /\ opponents = <<>>
    /\ cards = <<>>
    /\ last = [op |-> None, action |-> None, error |-> NoError]
    /\ requests = [r \in Requests |-> Idle]
    /\ db = EmptyDb

\* Game.objects.create(...)
CreateGameRow(r) ==
    /\ game = NoRow
    /\ \A q \in Requests : requests[q].pc = "idle"
    /\ game' = NewGame
    /\ requests' = [requests EXCEPT ![r] =
            [pc |-> "create_player", op |-> "create_new_game", action |-> None]]
    /\ UNCHANGED <<player, cards, opponents, last, db>>

\* Player.objects.create(game=game, chips=1000)
CreatePlayerRow(r) ==
    /\ requests[r].pc = "create_player"
    /\ player' = NewPlayer
    /\ requests' = [requests EXCEPT ![r].pc = "create_opponent"]
    /\ UNCHANGED <<game, cards, opponents, last, db>>

\* one turn of the loop over opponent_names: Opponent.objects.create(...)
CreateOpponentRow(r) ==
    LET i == Len(opponents) + 1
    IN  /\ requests[r].pc = "create_opponent"
        /\ \E chips \in OpponentChipsDraws :
              opponents' = Append(opponents, NewOpponents(chips)[i])
        /\ requests' = [requests EXCEPT ![r].pc =
                IF i = Len(OPPONENT_NAMES) THEN "shuffle" ELSE "create_opponent"]
        /\ UNCHANGED <<game, player, cards, last, db>>

\* _deal_initial_cards: the deck built and shuffled, the first Card created
ShuffleAndCreateCardRow(r) ==
    /\ requests[r].pc = "shuffle"
    /\ \E k \in Shuffles :
          /\ cards' = <<DealInitialCards(k)[1]>>
          /\ requests' = [requests EXCEPT ![r] =
                [pc |-> "create_card", op |-> "create_new_game", action |-> None,
                 k |-> k]]
    /\ UNCHANGED <<game, player, opponents, last, db>>

\* a later turn of for i in range(5): Card.objects.create(...); after the
\* last one create_new_game returns
CreateCardRow(r) ==
    LET i == Len(cards) + 1
    IN  /\ requests[r].pc = "create_card"
        /\ cards' = Append(cards, DealInitialCards(requests[r].k)[i])
        /\ IF i = HAND_SIZE
           THEN /\ requests' = [requests EXCEPT ![r] = Idle]
                /\ last' = [op |-> "create_new_game", action |-> None,
                            error |-> NoError]
           ELSE UNCHANGED <<requests, last>>
        /\ UNCHANGED <<game, player, opponents, db>>

NextCreate ==
    \/ \E r \in Requests : CreateGameRow(r)
    \/ \E r \in Requests : CreatePlayerRow(r)
    \/ \E r \in Requests : CreateOpponentRow(r)
    \/ \E r \in Requests : ShuffleAndCreateCardRow(r)
    \/ \E r \in Requests : CreateCardRow(r)
    \/ \E game_id \in GameIdInputs : GetGameState(game_id)

SpecCreate == InitCreate /\ [][NextCreate]_vars

-----------------------------------------------------------------------------
(* Several games in the database: db holds the tables of models.py, each   *)
(* row with its primary key and its foreign key, and the GameService calls *)
(* find their rows through these keys, as the ORM does.                    *)

\* the identifiers uuid.uuid4 gives the games, in creation order
GameIds == <<GAME_ID, OTHER_ID>>

\* the arguments and the random outcomes explored with several games
MultiBetInputs == {<<"call", <<>> >>, <<"raise", <<1000>> >>, <<"fold", <<>> >>}

MultiDiscards == {<<1, 0>>}

MultiHands == {"High Card"}

MultiChipsDraws ==
    {<<OPPONENT_CHIPS_MAX, OPPONENT_CHIPS_MIN + 200, OPPONENT_CHIPS_MIN>>}

\* rows as stored: the fields of a row of create_new_game with the keys
PlayerRow(p, id, game_id) ==
    [id |-> id, game_id |-> game_id, chips |-> p.chips,
     has_folded |-> p.has_folded, current_bet |-> p.current_bet]

CardRow(c, id, player_id) ==
    [id |-> id, player_id |-> player_id, suit |-> c.suit, rank |-> c.rank,
     selected |-> c.selected, position |-> c.position]

OpponentRow(o, id, game_id) ==
    [id |-> id, game_id |-> game_id, name |-> o.name, chips |-> o.chips,
     status |-> o.status, card_count |-> o.card_count,
     current_bet |-> o.current_bet]

\* Game.objects.get(id=game_id), as the set of the rows found
GameRows(d, game_id) == {g \in d.games : g.id = game_id}

\* game.player (OneToOneField): the primary key of the game's Player row
PlayerOf(d, g) == CHOOSE i \in 1..Len(d.players) : d.players[i].game_id = g.id

\* mutant: the cards are read without the filter on the player
CardsOf_AllCards(d, player_id) == d.cards

\* player.cards.all(): the Card rows of the player; rows are created in the
\* order of their positions, which is the order of Meta.ordering
CardsOf(d, player_id) ==
    LET OfPlayer(c) == c.player_id = player_id
    IN  SelectSeq(d.cards, OfPlayer)

\* game.opponents: the Opponent rows of the game
OpponentsOf(d, game_id) ==
    LET OfGame(o) == o.game_id = game_id
    IN  SelectSeq(d.opponents, OfGame)

\* how a call on the game game_id ends
MultiLast(op, game_id, err) ==
    [op |-> op, action |-> None, error |-> err, game_id |-> game_id]

\* the database with no game
InitMulti ==
    /\ db = EmptyDb
    /\ game = NoRow
    /\ player = NoRow
    /\ opponents = <<>>
    /\ cards = <<>>
    /\ last = MultiLast(None, None, NoError)
    /\ requests = [r \in Requests |-> Idle]

\* create_new_game with other games in the tables
MultiCreate ==
    /\ Cardinality(db.games) < Len(GameIds)
    /\ \E k \in Shuffles, chips \in MultiChipsDraws :
          LET game_id == GameIds[Cardinality(db.games) + 1]
              player_id == Len(db.players) + 1
          IN  /\ db' =
                    [games |-> db.games \cup {[NewGame EXCEPT !.id = game_id]},
                     players |-> Append(db.players,
                                        PlayerRow(NewPlayer, player_id, game_id)),
                     opponents |-> db.opponents \o
                        [i \in 1..Len(OPPONENT_NAMES) |->
                            OpponentRow(NewOpponents(chips)[i],
                                        Len(db.opponents) + i, game_id)],
                     cards |-> db.cards \o
                        [i \in 1..HAND_SIZE |->
                            CardRow(DealInitialCards(k)[i], Len(db.cards) + i,
                                    player_id)]]
              /\ last' = MultiLast("create_new_game", game_id, NoError)
    /\ UNCHANGED <<game, player, cards, opponents, requests>>

\* game.save(): the row with the primary key of g is replaced by g
SaveGame(d, g) == [d EXCEPT !.games = (@ \ GameRows(d, g.id)) \cup {g}]

\* get_game_state(game_id) and process_bet_action on the game found
MultiBet(game_id, action, amount) ==
    /\ IF GameRows(db, game_id) = {}
       THEN /\ last' = MultiLast("process_bet_action", game_id, ErrNotFound)
            /\ UNCHANGED db
       ELSE LET g == CHOOSE row \in GameRows(db, game_id) : TRUE
                player_id == PlayerOf(db, g)
                p == db.players[player_id]
                err == BetError(g, p, action, amount)
            IN  /\ last' = MultiLast("process_bet_action", game_id, err)
                /\ IF err # NoError THEN UNCHANGED db
                   ELSE \E w \in FoldWinners :
                          db' = SaveGame(
                                  [db EXCEPT !.players[player_id] =
                                      BetPlayer(g, p, action, amount)],
                                  BetGame(g, action, amount, w))
    /\ UNCHANGED <<game, player, cards, opponents, requests>>

\* get_game_state(game_id) and process_draw_action on the game found
MultiDraw(game_id, discard_indices) ==
    /\ IF GameRows(db, game_id) = {}
       THEN /\ last' = MultiLast("process_draw_action", game_id, ErrNotFound)
            /\ UNCHANGED db
       ELSE LET g == CHOOSE row \in GameRows(db, game_id) : TRUE
                p == db.players[PlayerOf(db, g)]
                cs == CardsOf(db, p.id)
                err == DrawError(g, cs, discard_indices)
            IN  /\ last' = MultiLast("process_draw_action", game_id, err)
                /\ IF err # NoError THEN UNCHANGED db
                   ELSE \E k \in Shuffles :
                          LET new == DrawCards(cs, discard_indices, k)
                              Saved(i) == {j \in 1..Len(new) : new[j].id = i}
                              saved == [db EXCEPT !.cards =
                                          [i \in 1..Len(db.cards) |->
                                              IF Saved(i) = {} THEN db.cards[i]
                                              ELSE new[CHOOSE j \in Saved(i) : TRUE]]]
                          IN  \E w \in WinnerChoices(g, p, OpponentsOf(db, g.id)),
                                 h \in MultiHands :
                                    db' = SaveGame(saved, DrawGame(g, w, h))
    /\ UNCHANGED <<game, player, cards, opponents, requests>>

\* get_game_state(game_id) with several games stored
MultiGet(game_id) ==
    /\ last' = MultiLast("get_game_state", game_id,
                         IF GameRows(db, game_id) = {} THEN ErrNotFound ELSE NoError)
    /\ UNCHANGED <<game, player, cards, opponents, requests, db>>

NextMulti ==
    \/ MultiCreate
    \/ \E game_id \in GameIdInputs, b \in MultiBetInputs :
          MultiBet(game_id, b[1], b[2])
    \/ \E game_id \in GameIdInputs, discard_indices \in MultiDiscards :
          MultiDraw(game_id, discard_indices)
    \/ \E game_id \in GameIdInputs : MultiGet(game_id)

SpecMulti == InitMulti /\ [][NextMulti]_vars

-----------------------------------------------------------------------------
(* Properties *)

BetStep == last'.op = "process_bet_action"

DrawStep == last'.op = "process_draw_action"

Succeeded == last'.error = NoError

SuitRank(c) == <<c.suit, c.rank>>

\* the cards sit at positions 0..4 in order
PositionsInOrder(cs) ==
    /\ Len(cs) = 5
    /\ \A i \in 1..5 : cs[i].position = i - 1

OpponentNames == {opponents[i].name : i \in 1..Len(opponents)}

\* C1: every session produced by create_new_game is in betting with pot 0,
\* current bet 10, no winner and no winning hand; its player has 1000 chips, has
\* not folded and holds exactly 5 cards at positions 0..4 with pairwise distinct
\* (suit, rank); it has exactly 3 opponents, each active, with 5 cards and chips
\* in [800, 1200].
C1_NewGame ==
    last.op = "create_new_game" =>
        /\ game.phase = "betting"
        /\ game.pot = 0
        /\ game.current_bet = 10
        /\ game.winner = None
        /\ game.winning_hand = None
        /\ player.chips = 1000
        /\ player.has_folded = FALSE
        /\ PositionsInOrder(cards)
        /\ \A i, j \in 1..5 : i # j => SuitRank(cards[i]) # SuitRank(cards[j])
        /\ Len(opponents) = 3
        /\ \A i \in 1..Len(opponents) :
              /\ opponents[i].status = "active"
              /\ opponents[i].card_count = 5
              /\ opponents[i].chips >= 800
              /\ opponents[i].chips <= 1200

C1_Witness ==
    /\ last.op = "create_new_game"
    /\ opponents[1].chips = 1200
    /\ opponents[3].chips = 800
    /\ SuitRank(cards[1]) = <<"hearts", "3">>

\* C2: under sequentially executed operations the only steps are a successful
\* raise (betting to betting), a successful call (betting to drawing), a
\* successful fold (betting to finished), a successful draw (drawing to
\* finished) and failures, which keep the phase; the phase never goes back and
\* is never showdown.
C2_PhaseTransitions ==
    [][/\ game.phase # "showdown"
       /\ game'.phase # "showdown"
       /\ ~Succeeded => game'.phase = game.phase
       /\ (Succeeded /\ BetStep /\ last'.action = "raise") =>
              (game.phase = "betting" /\ game'.phase = "betting")
       /\ (Succeeded /\ BetStep /\ last'.action = "call") =>
              (game.phase = "betting" /\ game'.phase = "drawing")
       /\ (Succeeded /\ BetStep /\ last'.action = "fold") =>
              (game.phase = "betting" /\ game'.phase = "finished")
       /\ (Succeeded /\ DrawStep) =>
              (game.phase = "drawing" /\ game'.phase = "finished")
       /\ game'.phase # game.phase =>
              <<game.phase, game'.phase>> \in
                  {<<"betting", "drawing">>, <<"betting", "finished">>,
                   <<"drawing", "finished">>}]_vars

C2_Witness ==
    /\ game.phase = "finished"
    /\ last.op = "process_draw_action"
    /\ last.error = NoError
    /\ game.pot = 600
    /\ game.current_bet = 300

\* C3: once the phase is finished, every bet and every draw fails with the
\* phase error of its operation and leaves game, player, cards and opponents
\* as they were; has_folded never goes back to false.
C3_FinishedIsFinal ==
    [][/\ game.phase = "finished" =>
              /\ BetStep => last'.error = ErrBetPhase
              /\ DrawStep => last'.error = ErrDrawPhase
              /\ UNCHANGED session
       /\ player.has_folded => player'.has_folded]_vars

C3_Witness ==
    /\ game.phase = "finished"
    /\ player.has_folded
    /\ last.op = "process_bet_action"
    /\ last.action = "fold"
    /\ last.error = ErrBetPhase

\* C4: a call in betting with chips >= the current bet succeeds; the pot grows
\* by the current bet, the player's chips shrink by it, the player's current
\* bet equals it, the table's current bet is unchanged and the phase is drawing.
C4_Call ==
    [][(/\ game.phase = "betting"
        /\ player.chips >= game.current_bet
        /\ BetStep
        /\ last'.action = "call") =>
           /\ Succeeded
           /\ game'.pot = game.pot + game.current_bet
           /\ player'.chips = player.chips - game.current_bet
           /\ player'.current_bet = game.current_bet
           /\ game'.current_bet = game.current_bet
           /\ game'.phase = "drawing"]_vars

\* a call after the raises 300 and 300
C4_Witness ==
    /\ last.op = "process_bet_action"
    /\ last.action = "call"
    /\ last.error = NoError
    /\ game.phase = "drawing"
    /\ game.pot = 900
    /\ player.chips = 100

\* C5: a raise in betting with 0 < amount <= chips succeeds; the player's chips
\* shrink by amount, the player's current bet is amount, the pot grows by
\* amount, the table's current bet is the max of its old value and amount, and
\* the phase is still betting.
C5_Raise ==
    [][(BetStep /\ last'.action = "raise") => \A amount \in AmountInputs :
          (/\ game.phase = "betting"
           /\ amount # <<>>
           /\ amount[1] > 0
           /\ amount[1] <= player.chips
           /\ ProcessBetAction("raise", amount)) =>
              /\ Succeeded
              /\ player'.chips = player.chips - amount[1]
              /\ player'.current_bet = amount[1]
              /\ game'.pot = game.pot + amount[1]
              /\ game'.current_bet =
                    (IF game.current_bet > amount[1] THEN game.current_bet
                     ELSE amount[1])
              /\ game'.phase = "betting"]_vars

\* the raise 300 after the raise 400
C5_Witness ==
    /\ last.op = "process_bet_action"
    /\ last.action = "raise"
    /\ last.error = NoError
    /\ game.current_bet = 400
    /\ player.current_bet = 300
    /\ game.pot = 700

\* C6: a fold in betting succeeds whatever the chips and the earlier raises;
\* the player has folded, the phase is finished and the winner is the name of
\* one of the game's opponents, never 'player'.
C6_Fold ==
    [][(/\ game.phase = "betting"
        /\ BetStep
        /\ last'.action = "fold") =>
           /\ Succeeded
           /\ player'.has_folded
           /\ game'.phase = "finished"
           /\ game'.winner \in OpponentNames
           /\ game'.winner # "player"]_vars

\* a fold after going all in
C6_Witness ==
    /\ last.op = "process_bet_action"
    /\ last.action = "fold"
    /\ last.error = NoError
    /\ player.has_folded
    /\ player.chips = 0
    /\ game.winner = "Computer 2"

\* C7: in betting a call fails for insufficient chips exactly when chips < the
\* current bet, and a raise of a positive amount fails for insufficient chips
\* exactly when chips < amount; such a failure changes nothing.
C7_InsufficientChips ==
    [][game.phase = "betting" =>
          /\ (BetStep /\ last'.action = "call") =>
                (last'.error = ErrCallChips <=> player.chips < game.current_bet)
          /\ (BetStep /\ last'.action = "raise") => \A amount \in AmountInputs :
                (/\ amount # <<>>
                 /\ amount[1] > 0
                 /\ ProcessBetAction("raise", amount)) =>
                    (last'.error = ErrRaiseChips <=> player.chips < amount[1])
          /\ last'.error \in {ErrCallChips, ErrRaiseChips} => UNCHANGED session]_vars

\* a call that fails after the all-in raise of 1000 succeeded
C7_Witness ==
    /\ game.phase = "betting"
    /\ last.error = ErrCallChips
    /\ player.chips = 0
    /\ player.current_bet = 1000
    /\ game.pot = 1000

\* C8: in betting a raise whose amount is missing, zero or negative fails and
\* changes nothing.
C8_RaiseNeedsPositiveAmount ==
    [][(BetStep /\ last'.action = "raise") => \A amount \in AmountInputs :
          (/\ game.phase = "betting"
           /\ \/ amount = <<>>
              \/ amount[1] <= 0
           /\ ProcessBetAction("raise", amount)) =>
              /\ last'.error # NoError
              /\ UNCHANGED session
              /\ game'.phase = "betting"]_vars

C8_Witness ==
    /\ game.phase = "betting"
    /\ last.action = "raise"
    /\ last.error = ErrRaisePositive
    /\ game.pot = 300
    /\ player.chips = 700

\* C9: an operation in the wrong phase fails and changes nothing: a bet in
\* drawing fails with the bet's phase error, a draw in betting with the draw's.
C9_WrongPhase ==
    [][/\ (game.phase = "drawing" /\ BetStep) =>
              (last'.error = ErrBetPhase /\ UNCHANGED session)
       /\ (game.phase = "betting" /\ DrawStep) =>
              (last'.error = ErrDrawPhase /\ UNCHANGED session)]_vars

C9_Witness ==
    /\ game.phase = "betting"
    /\ last.op = "process_draw_action"
    /\ last.error = ErrDrawPhase
    /\ game.pot = 400

\* a list of pairwise distinct positions within 0..4
DistinctPositions(d) ==
    /\ \A i \in 1..Len(d) : d[i] >= 0 /\ d[i] <= 4
    /\ \A i, j \in 1..Len(d) : i # j => d[i] # d[j]

Discarded(d) == {d[i] : i \in 1..Len(d)}

\* C10: a draw in drawing with pairwise distinct positions within 0..4
\* succeeds; the hand still has 5 cards at positions 0..4, the cards at the
\* other positions keep their (suit, rank), no card at a discarded position
\* equals another card of the new hand, the phase is finished, and winner and
\* winning hand are set.
C10_Draw ==
    [][(DrawStep /\ game.phase = "drawing") => \A d \in DiscardInputs :
          (DistinctPositions(d) /\ ProcessDrawAction(d)) =>
              /\ Succeeded
              /\ PositionsInOrder(cards')
              /\ \A q \in (0..4) \ Discarded(d) :
                    SuitRank(cards'[q + 1]) = SuitRank(cards[q + 1])
              /\ \A q \in Discarded(d) : \A r \in (0..4) \ {q} :
                    SuitRank(cards'[q + 1]) # SuitRank(cards'[r + 1])
              /\ game'.phase = "finished"
              /\ game'.winner # None
              /\ game'.winning_hand # None]_vars

\* the draw [0, 2, 4] on the hand dealt by the shuffle 0
C10_Witness ==
    /\ last.op = "process_draw_action"
    /\ last.error = NoError
    /\ game.phase = "finished"
    /\ SuitRank(cards[1]) # SuitRank(DealInitialCards(0)[1])
    /\ SuitRank(cards[2]) = SuitRank(DealInitialCards(0)[2])
    /\ SuitRank(cards[3]) # SuitRank(DealInitialCards(0)[3])
    /\ SuitRank(cards[4]) = SuitRank(DealInitialCards(0)[4])
    /\ SuitRank(cards[5]) # SuitRank(DealInitialCards(0)[5])

\* C11: a draw in drawing with an empty discard list succeeds, leaves the 5
\* cards as they were ((suit, rank) and position), and moves the phase to
\* finished with winner and winning hand set.
C11_DrawNothing ==
    [][(DrawStep /\ game.phase = "drawing" /\ ProcessDrawAction(<<>>)) =>
          /\ Succeeded
          /\ cards' = cards
          /\ game'.phase = "finished"
          /\ game'.winner # None
          /\ game'.winning_hand # None]_vars

\* the hand dealt by the shuffle 1, still held when the game is finished
C11_Witness ==
    /\ last.op = "process_draw_action"
    /\ last.error = NoError
    /\ game.phase = "finished"
    /\ ~player.has_folded
    /\ cards = DealInitialCards(1)

OutOfRange(d) == \E i \in 1..Len(d) : d[i] < 0 \/ d[i] >= 5

\* C12: a draw in drawing whose list holds a position < 0 or >= 5, also next
\* to valid positions, fails before any card is replaced: hand, phase (still
\* drawing), winner and winning hand are unchanged.
C12_InvalidIndex ==
    [][(DrawStep /\ game.phase = "drawing") => \A d \in DiscardInputs :
          (OutOfRange(d) /\ ProcessDrawAction(d)) =>
              /\ last'.error # NoError
              /\ cards' = cards
              /\ game'.phase = "drawing"
              /\ game'.winner = game.winner
              /\ game'.winning_hand = game.winning_hand
              /\ UNCHANGED session]_vars

C12_Witness ==
    /\ game.phase = "drawing"
    /\ last.op = "process_draw_action"
    /\ last.error = ErrInvalidIndex
    /\ game.winner = None
    /\ game.pot = 600

\* an in-range list in which a position occurs more than once
HasDuplicate(d) ==
    /\ ~OutOfRange(d)
    /\ \E i, j \in 1..Len(d) : i # j /\ d[i] = d[j]

\* C13: a draw in drawing whose list repeats an in-range position fails and
\* mutates nothing: no card replaced, phase still drawing, no winner set.
C13_DuplicateIndex ==
    [][(DrawStep /\ game.phase = "drawing") => \A d \in DiscardInputs :
          (HasDuplicate(d) /\ ProcessDrawAction(d)) =>
              /\ last'.error # NoError
              /\ cards' = cards
              /\ game'.phase = "drawing"
              /\ game'.winner = None]_vars

DeckCards == {FullDeck[i] : i \in 1..Len(FullDeck)}

\* C14: in every reachable state the hand has exactly 5 cards at positions
\* 0..4, once each, and their (suit, rank) pairs are pairwise distinct members
\* of the 52-card deck.
C14_HandInvariant ==
    /\ PositionsInOrder(cards)
    /\ \A i, j \in 1..5 : i # j => SuitRank(cards[i]) # SuitRank(cards[j])
    /\ \A i \in 1..5 : SuitRank(cards[i]) \in DeckCards
    /\ Cardinality(DeckCards) = 52

\* all 5 cards of the hand dealt by the shuffle 0 replaced
C14_Witness ==
    /\ last.op = "process_draw_action"
    /\ last.error = NoError
    /\ game.phase = "finished"
    /\ \A i \in 1..5 : SuitRank(cards[i]) \notin CurrentCards(DealInitialCards(0))

\* C15: in every state reached by sequentially executed operations the
\* player's chips and the pot are >= 0.
C15_ChipsNeverNegative ==
    /\ player.chips >= 0
    /\ game.pot >= 0

\* a call refused after the raises 300 and 400 left 300 chips
C15_Witness ==
    /\ game.phase = "betting"
    /\ last.action = "call"
    /\ last.error = ErrCallChips
    /\ player.chips = 300
    /\ game.current_bet = 400
    /\ game.pot = 700

\* C16: winner and winning hand are both unset in betting and drawing and both
\* set in finished; a successful draw leaves as winner 'player' or the name of
\* an active opponent, and as winning hand one of the fixed hand names.
C16_WinnerSetWhenFinished ==
    /\ [](/\ game.phase \in {"betting", "drawing"} =>
                (game.winner = None /\ game.winning_hand = None)
          /\ game.phase = "finished" =>
                (game.winner # None /\ game.winning_hand # None))
    /\ [][(DrawStep /\ Succeeded) =>
             /\ game'.phase = "finished"
             /\ game'.winner \in
                   {"player"} \cup
                   {opponents[i].name :
                       i \in {j \in 1..3 : opponents[j].status = "active"}}
             /\ game'.winning_hand \in
                   {"Royal Flush", "Straight Flush", "Four of a Kind",
                    "Full House", "Flush", "Straight", "Three of a Kind",
                    "Two Pair", "Pair of Aces", "Pair of Kings", "High Card"}]_vars

C16_Witness ==
    /\ game.phase = "finished"
    /\ last.op = "process_draw_action"
    /\ last.error = NoError
    /\ game.winner = "player"
    /\ game.winning_hand = "Royal Flush"

GetStep == last'.op = "get_game_state"

\* C17: get_game_state with an identifier no game has fails with the
\* not-found error; with the game's identifier it succeeds in every phase,
\* returns that game's row and changes no row, however often it is repeated.
C17_GetState ==
    [][GetStep =>
          /\ UNCHANGED session
          /\ \A game_id \in GameIdInputs : GetGameState(game_id) =>
                IF game_id = game.id
                THEN /\ Succeeded
                     /\ last'.returned = game
                     /\ last'.returned = game'
                ELSE last'.error = ErrNotFound]_vars

\* a lookup of the game a fold has finished
C17_Witness ==
    /\ last.op = "get_game_state"
    /\ last.error = NoError
    /\ last.returned = game
    /\ game.phase = "finished"
    /\ player.has_folded

\* the requests that ended without an error
SucceededRequests ==
    {r \in Requests : requests[r].pc = "done" /\ requests[r].error = NoError}

\* every request in flight or ended is a call
AllCalls ==
    \A r \in Requests :
        /\ requests[r].pc # "idle"
        /\ requests[r].op = "process_bet_action"
        /\ requests[r].action = "call"

\* C18: when the requests running concurrently on a game in betting whose
\* player's chips equal the bet to call (500 of each, 500 in the pot) are all
\* calls, at most one of them succeeds, every other one fails with the
\* wrong-phase or the not-enough-chips error, and the pot is credited at most
\* once.
C18_OneCallSucceeds ==
    AllCalls =>
        /\ Cardinality(SucceededRequests) <= 1
        /\ \A r \in Requests :
              (requests[r].pc = "done" /\ requests[r].error # NoError) =>
                  requests[r].error \in {ErrBetPhase, ErrCallChips}
        /\ game.pot \in {500, 1000}

\* a whole successful bet takes the stored rows from the unprimed to the
\* primed state
WholeBet ==
    \E b \in ConcBetInputs, w \in FoldWinners :
        /\ BetError(game, player, b[1], b[2]) = NoError
        /\ game' = BetGame(game, b[1], b[2], w)
        /\ player' = BetPlayer(game, player, b[1], b[2])
        /\ UNCHANGED <<cards, opponents>>

\* a whole successful draw does
WholeDraw ==
    \E d \in ConcDiscards, k \in Shuffles,
       w \in WinnerChoices(game, player, opponents), h \in WINNING_HANDS :
        /\ DrawError(game, cards, d) = NoError
        /\ cards' = DrawCards(cards, d, k)
        /\ game' = DrawGame(game, w, h)
        /\ UNCHANGED <<player, opponents>>

\* C19: a bet or a draw takes effect as one unit: the stored rows, which a
\* get_game_state running at any moment reads, only ever change from the
\* state before a whole operation to the state after it, never to a state in
\* between (chips deducted with the pot not yet credited, has_folded set in
\* betting, cards replaced in drawing).
C19_OperationsAreUnits ==
    [][session' # session => (WholeBet \/ WholeDraw)]_vars

\* C20: create_new_game is atomic for the lookups: whenever a game can be
\* found by its identifier, its player, its 3 opponents and its 5 cards exist.
C20_CreateIsAtomic ==
    (\E game_id \in GameIdInputs : \E g \in Games : g.id = game_id) =>
        /\ player # NoRow
        /\ Len(opponents) = 3
        /\ Len(cards) = 5

\* C21: every successful raise has an amount greater than the game's
\* current_bet before it, and leaves current_bet strictly greater than before.
C21_RaiseIncreasesBet ==
    [][(BetStep /\ last'.action = "raise" /\ Succeeded) =>
          /\ game'.current_bet > game.current_bet
          /\ \A amount \in AmountInputs :
                ProcessBetAction("raise", amount) => amount[1] > game.current_bet]_vars

\* C22: in every state reached by sequentially executed operations the pot
\* and the player's chips add up to the 1000 chips the player started with.
C22_ChipsConserved == game.pot + player.chips = STARTING_CHIPS

\* a raise of 300 and the call of it, then the draw
C22_Witness ==
    /\ game.phase = "finished"
    /\ last.op = "process_draw_action"
    /\ last.error = NoError
    /\ game.pot = 600
    /\ player.chips = 400
    /\ player.current_bet = 300

\* the action-availability flags of a Game row, and the row with them set
FlagValues == [can_call : BOOLEAN, can_raise : BOOLEAN, can_fold : BOOLEAN]

WithFlags(g, f) ==
    [g EXCEPT !.can_call = f.can_call, !.can_raise = f.can_raise,
              !.can_fold = f.can_fold]

\* what a bet or a draw can change in the Game row
Core(g) == <<g.phase, g.pot, g.current_bet, g.winner, g.winning_hand>>

\* C25: the flags can_call, can_raise and can_fold are not consulted: on a
\* game that differs from a reachable one in the flags only, every bet and
\* every draw with the same arguments ends the same way (success or the same
\* error) and makes the same changes to phase, pot, current_bet, winner, the
\* player's row and the hand.
C25_FlagsNotConsulted ==
    \A f \in FlagValues :
        LET g2 == WithFlags(game, f)
        IN  /\ \A action \in BetActions, amount \in AmountInputs :
                  /\ BetError(g2, player, action, amount) =
                        BetError(game, player, action, amount)
                  /\ BetError(game, player, action, amount) = NoError =>
                        /\ BetPlayer(g2, player, action, amount) =
                              BetPlayer(game, player, action, amount)
                        /\ \A w \in FoldWinners :
                              Core(BetGame(g2, action, amount, w)) =
                                 Core(BetGame(game, action, amount, w))
            /\ \A d \in DiscardInputs :
                  /\ DrawError(g2, cards, d) = DrawError(game, cards, d)
                  /\ DrawError(game, cards, d) = NoError =>
                        /\ WinnerChoices(g2, player, opponents) =
                              WinnerChoices(game, player, opponents)
                        /\ \A w \in WinnerChoices(game, player, opponents),
                              h \in WINNING_HANDS :
                              Core(DrawGame(g2, w, h)) = Core(DrawGame(game, w, h))

\* a game in betting after a raise of 400, on which a call goes through with
\* all three flags off
C25_Witness ==
    /\ game.phase = "betting"
    /\ game.current_bet = 400
    /\ player.chips = 600
    /\ game.can_call
    /\ BetError(WithFlags(game, [can_call |-> FALSE, can_raise |-> FALSE,
                                 can_fold |-> FALSE]), player, "call", <<>>) = NoError

\* C30: every card a draw places differs from all 5 cards of the hand before
\* the draw, the discarded ones included, and no replacement card is placed
\* at two positions.
C30_ReplacementsAreNew ==
    [][(DrawStep /\ Succeeded) => \A d \in DiscardInputs :
          ProcessDrawAction(d) =>
              /\ \A q \in Discarded(d) :
                    SuitRank(cards'[q + 1]) \notin CurrentCards(cards)
              /\ \A q, r \in Discarded(d) :
                    q # r => SuitRank(cards'[q + 1]) # SuitRank(cards'[r + 1])]_vars

\* all 5 cards of the hand dealt by the shuffle 1 replaced
C30_Witness ==
    /\ last.op = "process_draw_action"
    /\ last.error = NoError
    /\ game.phase = "finished"
    /\ \A i \in 1..5 : SuitRank(cards[i]) \notin CurrentCards(DealInitialCards(1))
    /\ SuitRank(cards[1]) \in CurrentCards(DealInitialCards(0))

\* C26: the opponents never act: in every reachable state, finished ones
\* included, there are 3 opponents with the names given at creation, status
\* active, card_count 5, current_bet 0 and chips within 800..1200, and no
\* bet, draw or lookup changes any field of an opponent.
C26_OpponentsNeverAct ==
    /\ [](/\ Len(opponents) = 3
          /\ \A i \in 1..3 :
                /\ opponents[i].name = OPPONENT_NAMES[i]
                /\ opponents[i].status = "active"
                /\ opponents[i].card_count = 5
                /\ opponents[i].current_bet = 0
                /\ opponents[i].chips \in OPPONENT_CHIPS_MIN..OPPONENT_CHIPS_MAX)
    /\ [][opponents' = opponents]_vars

\* a lookup of a game finished by a draw that an opponent won
C26_Witness ==
    /\ last.op = "get_game_state"
    /\ last.error = NoError
    /\ game.phase = "finished"
    /\ ~player.has_folded
    /\ game.winner = "Computer 2"
    /\ opponents[2].status = "active"

\* the order of the phases
PhaseRank(phase) ==
    IF phase = "betting" THEN 0
    ELSE IF phase = "drawing" THEN 1
    ELSE IF phase = "showdown" THEN 2
    ELSE 3

\* C28: under concurrent requests on one game the stored phase never moves
\* backwards and a stored winner is never cleared.
C28_PhaseNeverGoesBack ==
    [][/\ PhaseRank(game'.phase) >= PhaseRank(game.phase)
       /\ game.winner # None => game'.winner # None]_vars

\* every request has ended and was a call or a raise
AllBetsDone ==
    \A r \in Requests :
        /\ requests[r].pc = "done"
        /\ requests[r].op = "process_bet_action"
        /\ requests[r].action \in {"call", "raise"}

\* C29: once concurrent calls and raises on one game have all ended, the pot
\* and the player's chips add up to 1000 and the pot is the sum of the
\* amounts of the bets that reported success: the 500 of the raise made
\* before, and 500 for each of the concurrent requests that succeeded (a call
\* of the bet of 500 or a raise of 500).
C29_ChipsConservedConcurrently ==
    AllBetsDone =>
        /\ game.pot + player.chips = STARTING_CHIPS
        /\ game.pot = 500 + 500 * Cardinality(SucceededRequests)

BetViewStep == last'.op = "bet"

DrawViewStep == last'.op = "draw"

\* C23: a bet request on the existing game in betting whose action is left
\* out or is not call, raise or fold is answered with an error (400) and
\* leaves the session unchanged; it is never answered as a successful bet.
C23_InvalidActionRejected ==
    [][(BetViewStep /\ game.phase = "betting") => \A data \in BetBodies :
          ((data.action = <<>> \/ data.action[1] \notin {"call", "raise", "fold"})
              /\ BetView(game.id, data)) =>
                /\ last'.status = 400
                /\ last'.error # NoError
                /\ UNCHANGED session]_vars

\* a refused body on a game still in betting after a raise
C23_Witness ==
    /\ last.op = "bet"
    /\ last.status = 400
    /\ last.error = "Invalid bet action"
    /\ game.phase = "betting"
    /\ game.pot = 400

\* the checks of a bet or draw request, in their order: rq is the response
\* to the pk, valid says whether the body is valid, phase is the phase the
\* request needs and engine the outcome of the service method
ChecksInOrder(rq, pk, valid, phase, engine) ==
    /\ pk = MALFORMED_ID => (rq.status = 400 /\ ~rq.looked_up)
    /\ (pk # MALFORMED_ID /\ pk # game.id) => rq.status = 404
    /\ (pk = game.id /\ ~valid) => rq.status = 400
    /\ (pk = game.id /\ valid /\ game.phase # phase) => rq.status = 400
    /\ (pk = game.id /\ valid /\ game.phase = phase /\ engine # NoError) =>
          (rq.status = 400 /\ rq.error = engine)
    /\ rq.status = 200 <=>
          (pk = game.id /\ valid /\ game.phase = phase /\ engine = NoError)
    /\ rq.status \in {200, 400, 404}
    /\ rq.status # 200 => UNCHANGED session

\* C24: bet and draw requests are checked in a fixed order: a malformed
\* identifier gives 400 without a lookup; else an identifier of no game gives
\* 404, whatever the body; else an invalid body gives 400; else a wrong phase
\* gives 400; else an error of the service method gives 400; each of these
\* leaves the stored rows unchanged, and only a fully valid request gives 200.
C24_ChecksInOrder ==
    /\ [][BetViewStep => \A pk \in PkInputs, data \in BetBodies :
            BetView(pk, data) =>
                ChecksInOrder(last', pk, BetBodyValid(data), "betting",
                    IF BetBodyValid(data)
                    THEN BetError(game, player, data.action[1], data.amount)
                    ELSE NoError)]_vars
    /\ [][DrawViewStep => \A pk \in PkInputs, data \in DrawBodies :
            DrawView(pk, data) =>
                ChecksInOrder(last', pk, DrawBodyValid(data), "drawing",
                    IF DrawBodyValid(data)
                    THEN DrawError(game, cards, data.discardIndices[1])
                    ELSE NoError)]_vars

\* a 404 right after the game was finished by a draw request
C24_Witness ==
    /\ last.op = "bet"
    /\ last.status = 404
    /\ last.looked_up
    /\ game.phase = "finished"
    /\ ~player.has_folded

\* every row of the game game_id: its Game row, its Player row, the Card
\* rows of that player and its Opponent rows
SessionOf(d, game_id) ==
    LET players == {d.players[i] : i \in {j \in 1..Len(d.players) :
                                            d.players[j].game_id = game_id}}
    IN  [game |-> {g \in d.games : g.id = game_id},
         player |-> players,
         cards |-> {d.cards[i] : i \in {j \in 1..Len(d.cards) :
                        \E p \in players : d.cards[j].player_id = p.id}},
         opponents |-> {d.opponents[i] : i \in {j \in 1..Len(d.opponents) :
                        d.opponents[j].game_id = game_id}}]

\* C27: the games are independent: a bet, a draw or a lookup addressed to
\* one identifier, successful or not, and the creation of a game, leave every
\* row of every other game unchanged.
C27_SessionsIndependent ==
    [][\A game_id \in GameIdInputs :
          game_id # last'.game_id =>
              SessionOf(db', game_id) = SessionOf(db, game_id)]_vars

\* a draw on the second game while the first one, all-in, is still in betting
C27_Witness ==
    /\ last.op = "process_draw_action"
    /\ last.game_id = OTHER_ID
    /\ last.error = NoError
    /\ \E g \in GameRows(db, OTHER_ID) : g.phase = "finished"
    /\ \E g \in GameRows(db, GAME_ID) : g.phase = "betting" /\ g.pot = 1000
    /\ Len(db.cards) = 10

\* the three action-availability flags of the Game row
Flags(g) == <<g.can_call, g.can_raise, g.can_fold>>

\* C34: no bet, draw or lookup changes can_call, can_raise or can_fold: the
\* three are TRUE in every reachable state, in drawing and in finished too,
\* where every bet is refused.
C34_FlagsAlwaysTrue ==
    /\ [](Flags(game) = <<TRUE, TRUE, TRUE>>)
    /\ [][Flags(game') = Flags(game)]_vars

\* a call refused in a game that a draw has finished, the flags still on
C34_Witness ==
    /\ game.phase = "finished"
    /\ game.winning_hand = "High Card"
    /\ last.op = "process_bet_action"
    /\ last.action = "call"
    /\ last.error = ErrBetPhase
    /\ game.can_call /\ game.can_raise /\ game.can_fold

\* the chip amounts of a game: the pot, the table's bet, the player's chips
\* and the player's own bet
Chips(g, p) == <<g.pot, g.current_bet, p.chips, p.current_bet>>

\* C33: a fold and a draw move no chips: a successful fold leaves the pot,
\* the game's current_bet, the player's chips and current_bet and the hand
\* as they were, a successful draw leaves the four amounts as they were, and
\* so the player's chips in a finished game are the chips before the
\* finishing call, whoever the winner is.
C33_FoldAndDrawMoveNoChips ==
    [][/\ (BetStep /\ last'.action = "fold" /\ Succeeded) =>
              /\ Chips(game', player') = Chips(game, player)
              /\ cards' = cards
       /\ (DrawStep /\ Succeeded) => Chips(game', player') = Chips(game, player)
       /\ (game.phase # "finished" /\ game'.phase = "finished") =>
              player'.chips = player.chips]_vars

\* the player wins the draw after a raise of 300 and the call of it: the pot
\* of 600 is still there and the player still has 400 chips
C33_Witness ==
    /\ game.phase = "finished"
    /\ last.op = "process_draw_action"
    /\ last.error = NoError
    /\ game.winner = "player"
    /\ game.pot = 600
    /\ player.chips = 400

\* a fold after a raise of 400: the 400 chips stay in the pot
C33_WitnessFold ==
    /\ game.phase = "finished"
    /\ last.op = "process_bet_action"
    /\ last.action = "fold"
    /\ last.error = NoError
    /\ game.pot = 400
    /\ player.chips = 600

\* a game in betting whose player cannot pay the table's bet
CannotCall == game.phase = "betting" /\ player.chips < game.current_bet

\* C32: a raise of more than half of the player's chips leaves
\* player.chips < game.current_bet; once a game in betting is so, this
\* stays so as long as the game is in betting, every later call fails with
\* "Insufficient chips to call", the game never reaches drawing, and it
\* reaches finished by a fold only, so its winner is never the player.
C32_CannotCallIsPermanent ==
    /\ [][(BetStep /\ last'.action = "raise" /\ Succeeded
              /\ 2 * (player.chips - player'.chips) > player.chips) =>
                 CannotCall']_vars
    /\ [][CannotCall =>
              /\ game'.phase = "betting" => CannotCall'
              /\ (BetStep /\ last'.action = "call") => last'.error = ErrCallChips
              /\ game'.phase = "finished" =>
                     BetStep /\ last'.action = "fold" /\ Succeeded]_vars
    /\ [](CannotCall => [](game.phase # "drawing" /\ game.winner # "player"))

\* raises of 300, 400 and 300 have left the player no chips against a bet of
\* 400, and the call that follows is refused
C32_Witness ==
    /\ game.phase = "betting"
    /\ game.current_bet = 400
    /\ player.chips = 0
    /\ game.pot = 1000
    /\ last.op = "process_bet_action"
    /\ last.action = "call"
    /\ last.error = ErrCallChips

\* what is left to play: the player's chips and the phases still to come
Remaining(g, p) ==
    p.chips + (IF g.phase = "betting" THEN 2 ELSE IF g.phase = "drawing" THEN 1 ELSE 0)

\* C31: every game can finish and none is played forever: in betting a fold
\* is enabled, in drawing a draw of no card is enabled; the player's chips
\* never grow, every successful raise takes at least 1 chip, and every
\* successful call lowers the chips and phases left to play, which are never
\* negative; so a caller that keeps issuing succeeding calls reaches finished.
C31_EveryGameFinishes ==
    /\ [](/\ game.phase = "betting" =>
                ENABLED (ProcessBetAction("fold", <<>>) /\ last'.error = NoError)
          /\ game.phase = "drawing" =>
                ENABLED (ProcessDrawAction(<<>>) /\ last'.error = NoError)
          /\ Remaining(game, player) >= 0)
    /\ [][/\ player'.chips <= player.chips
          /\ (BetStep /\ last'.action = "raise" /\ Succeeded) =>
                player'.chips <= player.chips - 1
          /\ Succeeded => Remaining(game', player') < Remaining(game, player)]_vars
    /\ <>(game.phase = "finished")

\* two raises of 300, the call of 300 and the draw: four successful calls
C31_Witness ==
    /\ game.phase = "finished"
    /\ last.op = "process_draw_action"
    /\ last.error = NoError
    /\ game.pot = 900
    /\ player.chips = 100
    /\ player.current_bet = 300

====
